---- MODULE Spec2Model ----
(***************************************************************************)
(* A model of the air-traffic controller of src/src/lib.rs: one            *)
(* AirtrafficController (plane_ids, airport_capacity,                      *)
(* airport_max_capacity, an injected weather service) and a fixed pool of  *)
(* Plane values (id, state) that request landings and takeoffs.            *)
(***************************************************************************)
EXTENDS Integers, Sequences, FiniteSets, TLC

\* ---------------------------------------------------------------- bounds
\* Number of Plane values in the pool.
NumPlanes == 3
\* Plane ids are drawn from 1..MaxId (u8 in the source).
MaxId == 2
\* Longest initial_planes vector handed to new().
MaxInitial == 2
\* set_max_capacity is called with values in 0..MaxCapacityArg.
MaxCapacityArg == 1

\* ---------------------------------------------------------------- constants
\* airport_max_capacity as set by new().
DefaultMaxCapacity == 100

Planes == 1..NumPlanes
Ids == 1..MaxId

\* enum PlaneState
PlaneState == {"Landed", "Airborn"}

\* enum Weather
Weather == {"Clear", "Cloudy", "Sunny", "Stormy", "Raining", "Snowing", "Hailing"}

\* The readings WeatherService::get_weather returns in the runs explored:
\* the two of the tests, (Clear, 10) and (Stormy, -10), and one more
\* non-Stormy category with a negative magnitude.  (C16 compares every
\* category and magnitude in each state these runs reach.)
WeatherReadings == {<<"Clear", 10>>, <<"Stormy", -10>>, <<"Hailing", -10>>}

\* enum ControllerResponse
ControllerResponse ==
    {"AcceptLanding", "RejectLanding", "Redirect", "AllowTakeoff", "RejectTakeoff"}

\* The id of the p-th Plane of the pool.  With NumPlanes > MaxId two Plane
\* values carry the same id, which the source allows (Plane is a plain
\* struct built by the caller).
PlaneId(p) == ((p - 1) % MaxId) + 1

\* All vectors of ids of length at most n.
RECURSIVE SeqsUpTo(_)
SeqsUpTo(n) ==
    IF n = 0 THEN {<<>>}
    ELSE SeqsUpTo(n - 1) \cup [1..n -> Ids]

VARIABLES
    controller,   \* the AirtrafficController
    planes,       \* the pool of Plane values: Planes -> [id, state]
    last          \* the last call made and what it returned

vars == <<controller, planes, last>>

\* ---------------------------------------------------------------- Vec<u8>
\* Vec::contains
contains(ids, id) == \E i \in 1..Len(ids) : ids[i] = id

\* iter().position(): the first index holding id; 0 stands for None.
position(ids, id) ==
    IF contains(ids, id)
    THEN CHOOSE i \in 1..Len(ids) :
            /\ ids[i] = id
            /\ \A j \in 1..(i - 1) : ids[j] # id
    ELSE 0

\* Vec::remove(index)
remove(ids, i) == SubSeq(ids, 1, i - 1) \o SubSeq(ids, i + 1, Len(ids))

\* Vec::push
push(ids, id) == Append(ids, id)

\* ---------------------------------------------------------------- controller
\* new with the maximum taken from the initial vector.
new_max_from_list(initial_planes) ==
    [ airport_capacity     |-> Len(initial_planes),
      airport_max_capacity |-> Len(initial_planes),
      plane_ids            |-> initial_planes ]

\* AirtrafficController::new
new(initial_planes) ==
    [ airport_capacity     |-> Len(initial_planes),
      airport_max_capacity |-> DefaultMaxCapacity,
      plane_ids            |-> initial_planes ]

\* AirtrafficController::check_weather: hands back the service's reading.
check_weather(reading) == reading

\* AirtrafficController::has_plane
has_plane(c, plane) == position(c.plane_ids, plane.id) # 0

\* add_plane with the counter left alone.
add_plane_no_increment(c, id) ==
    [c EXCEPT !.plane_ids = push(c.plane_ids, id)]

\* AirtrafficController::add_plane
add_plane(c, id) ==
    [c EXCEPT !.plane_ids = push(c.plane_ids, id),
              !.airport_capacity = c.airport_capacity + 1]

\* remove_plane that does nothing for an id that is not stored.
remove_plane_ignores_absent(c, id) ==
    LET pos == position(c.plane_ids, id) IN
    IF pos = 0
    THEN [panicked |-> FALSE, overflowed |-> FALSE, controller |-> c]
    ELSE IF c.airport_capacity = 0
    THEN [panicked |-> FALSE, overflowed |-> TRUE,
          controller |-> [c EXCEPT !.plane_ids = remove(c.plane_ids, pos)]]
    ELSE [panicked |-> FALSE, overflowed |-> FALSE,
          controller |-> [c EXCEPT !.plane_ids = remove(c.plane_ids, pos),
                                   !.airport_capacity = c.airport_capacity - 1]]

\* remove_plane with the counter left alone.
remove_plane_no_decrement(c, id) ==
    LET pos == position(c.plane_ids, id) IN
    IF pos = 0
    THEN [panicked |-> TRUE, overflowed |-> FALSE, controller |-> c]
    ELSE [panicked |-> FALSE, overflowed |-> FALSE,
          controller |-> [c EXCEPT !.plane_ids = remove(c.plane_ids, pos)]]

\* AirtrafficController::remove_plane.  unwrap() of None panics before the
\* vector or the counter is touched.  airport_capacity is a usize: with the
\* counter at 0 the subtraction overflows after the vector has been changed
\* (a panic where overflow is checked, a wrap to usize::MAX where it is not);
\* "overflowed" marks that outcome and the counter is left as it was.
remove_plane(c, id) ==
    LET pos == position(c.plane_ids, id) IN
    IF pos = 0
    THEN [panicked |-> TRUE, overflowed |-> FALSE, controller |-> c]
    ELSE IF c.airport_capacity = 0
    THEN [panicked |-> FALSE, overflowed |-> TRUE,
          controller |-> [c EXCEPT !.plane_ids = remove(c.plane_ids, pos)]]
    ELSE [panicked |-> FALSE, overflowed |-> FALSE,
          controller |-> [c EXCEPT !.plane_ids = remove(c.plane_ids, pos),
                                   !.airport_capacity = c.airport_capacity - 1]]

\* set_max_capacity that evicts the planes beyond the new maximum.
set_max_capacity_evicts(c, max) ==
    LET keep == IF Len(c.plane_ids) < max THEN Len(c.plane_ids) ELSE max IN
    [c EXCEPT !.airport_max_capacity = max,
              !.plane_ids = SubSeq(c.plane_ids, 1, keep),
              !.airport_capacity = keep]

\* AirtrafficController::set_max_capacity
set_max_capacity(c, max) == [c EXCEPT !.airport_max_capacity = max]

\* allow_landing that adds the plane before the capacity guard.
allow_landing_adds_before_capacity(c, plane, reading) ==
    IF check_weather(reading)[1] = "Stormy"
    THEN [response |-> "RejectLanding", controller |-> c]
    ELSE IF contains(c.plane_ids, plane.id)
    THEN [response |-> "RejectLanding", controller |-> c]
    ELSE IF c.airport_capacity + 1 > c.airport_max_capacity
    THEN [response |-> "Redirect", controller |-> add_plane(c, plane.id)]
    ELSE [response |-> "AcceptLanding", controller |-> add_plane(c, plane.id)]

\* allow_landing that also refuses on a negative magnitude.
allow_landing_rejects_on_magnitude(c, plane, reading) ==
    IF check_weather(reading)[1] = "Stormy" \/ check_weather(reading)[2] < 0
    THEN [response |-> "RejectLanding", controller |-> c]
    ELSE IF contains(c.plane_ids, plane.id)
    THEN [response |-> "RejectLanding", controller |-> c]
    ELSE IF c.airport_capacity + 1 > c.airport_max_capacity
    THEN [response |-> "Redirect", controller |-> c]
    ELSE [response |-> "AcceptLanding", controller |-> add_plane(c, plane.id)]

\* allow_landing that refuses a plane that is already Landed.
allow_landing_rejects_landed(c, plane, reading) ==
    IF check_weather(reading)[1] = "Stormy"
    THEN [response |-> "RejectLanding", controller |-> c]
    ELSE IF plane.state = "Landed"
    THEN [response |-> "RejectLanding", controller |-> c]
    ELSE IF contains(c.plane_ids, plane.id)
    THEN [response |-> "RejectLanding", controller |-> c]
    ELSE IF c.airport_capacity + 1 > c.airport_max_capacity
    THEN [response |-> "Redirect", controller |-> c]
    ELSE [response |-> "AcceptLanding", controller |-> add_plane(c, plane.id)]

\* allow_landing with the capacity guard ahead of the duplicate guard.
allow_landing_capacity_first(c, plane, reading) ==
    IF check_weather(reading)[1] = "Stormy"
    THEN [response |-> "RejectLanding", controller |-> c]
    ELSE IF c.airport_capacity + 1 > c.airport_max_capacity
    THEN [response |-> "Redirect", controller |-> c]
    ELSE IF contains(c.plane_ids, plane.id)
    THEN [response |-> "RejectLanding", controller |-> c]
    ELSE [response |-> "AcceptLanding", controller |-> add_plane(c, plane.id)]

\* allow_landing with the capacity guard off by one.
allow_landing_off_by_one(c, plane, reading) ==
    IF check_weather(reading)[1] = "Stormy"
    THEN [response |-> "RejectLanding", controller |-> c]
    ELSE IF contains(c.plane_ids, plane.id)
    THEN [response |-> "RejectLanding", controller |-> c]
    ELSE IF c.airport_capacity > c.airport_max_capacity
    THEN [response |-> "Redirect", controller |-> c]
    ELSE [response |-> "AcceptLanding", controller |-> add_plane(c, plane.id)]

\* allow_landing without the duplicate guard.
allow_landing_no_duplicate_guard(c, plane, reading) ==
    IF check_weather(reading)[1] = "Stormy"
    THEN [response |-> "RejectLanding", controller |-> c]
    ELSE IF c.airport_capacity + 1 > c.airport_max_capacity
    THEN [response |-> "Redirect", controller |-> c]
    ELSE [response |-> "AcceptLanding", controller |-> add_plane(c, plane.id)]

\* AirtrafficController::allow_landing
allow_landing(c, plane, reading) ==
    IF check_weather(reading)[1] = "Stormy"
    THEN [response |-> "RejectLanding", controller |-> c]
    ELSE IF contains(c.plane_ids, plane.id)
    THEN [response |-> "RejectLanding", controller |-> c]
    ELSE IF c.airport_capacity + 1 > c.airport_max_capacity
    THEN [response |-> "Redirect", controller |-> c]
    ELSE [response |-> "AcceptLanding", controller |-> add_plane(c, plane.id)]

\* allow_takeoff that looks at the weather only after the removal.
allow_takeoff_storm_after_remove(c, plane, reading) ==
    IF plane.state = "Airborn"
    THEN [response |-> "RejectTakeoff", controller |-> c]
    ELSE LET r == remove_plane(c, plane.id) IN
         IF r.panicked
         THEN [response |-> "Panic", controller |-> r.controller]
         ELSE IF r.overflowed
         THEN [response |-> "Overflow", controller |-> r.controller]
         ELSE IF check_weather(reading)[1] = "Stormy"
         THEN [response |-> "RejectTakeoff", controller |-> r.controller]
         ELSE [response |-> "AllowTakeoff", controller |-> r.controller]

\* AirtrafficController::allow_takeoff.  "Panic" stands for the call not
\* returning: remove_plane panicked; "Overflow" for remove_plane's
\* subtraction having overflowed.
allow_takeoff(c, plane, reading) ==
    IF check_weather(reading)[1] = "Stormy"
    THEN [response |-> "RejectTakeoff", controller |-> c]
    ELSE IF plane.state = "Airborn"
    THEN [response |-> "RejectTakeoff", controller |-> c]
    ELSE LET r == remove_plane(c, plane.id) IN
         IF r.panicked
         THEN [response |-> "Panic", controller |-> r.controller]
         ELSE IF r.overflowed
         THEN [response |-> "Overflow", controller |-> r.controller]
         ELSE [response |-> "AllowTakeoff", controller |-> r.controller]

\* ---------------------------------------------------------------- plane
\* request_takeoff that forgets to set the state.
request_takeoff_keeps_state(plane, c, reading) ==
    LET r == allow_takeoff(c, plane, reading) IN
    [response |-> r.response, plane |-> plane, controller |-> r.controller]

\* request_takeoff that sets the state before looking at the answer.
request_takeoff_always_airborn(plane, c, reading) ==
    LET r == allow_takeoff(c, plane, reading) IN
    IF r.response \in {"Panic", "Overflow"}
    THEN [response |-> r.response, plane |-> plane, controller |-> r.controller]
    ELSE [response |-> r.response,
          plane |-> [plane EXCEPT !.state = "Airborn"],
          controller |-> r.controller]

\* Plane::request_takeoff
request_takeoff(plane, c, reading) ==
    LET r == allow_takeoff(c, plane, reading) IN
    IF r.response \in {"Panic", "Overflow"}
    THEN [response |-> r.response, plane |-> plane, controller |-> r.controller]
    ELSE IF r.response = "RejectTakeoff"
    THEN [response |-> "RejectTakeoff", plane |-> plane, controller |-> r.controller]
    ELSE [response |-> "AllowTakeoff",
          plane |-> [plane EXCEPT !.state = "Airborn"],
          controller |-> r.controller]

\* request_landing that returns early on RejectLanding only.
request_landing_lands_on_redirect(plane, c, reading) ==
    LET r == allow_landing(c, plane, reading) IN
    IF r.response = "RejectLanding"
    THEN [response |-> "RejectLanding", plane |-> plane, controller |-> r.controller]
    ELSE [response |-> "AcceptLanding",
          plane |-> [plane EXCEPT !.state = "Landed"],
          controller |-> r.controller]

\* Plane::request_landing
request_landing(plane, c, reading) ==
    LET r == allow_landing(c, plane, reading) IN
    IF r.response = "RejectLanding"
    THEN [response |-> "RejectLanding", plane |-> plane, controller |-> r.controller]
    ELSE IF r.response = "Redirect"
    THEN [response |-> "Redirect", plane |-> plane, controller |-> r.controller]
    ELSE [response |-> "AcceptLanding",
          plane |-> [plane EXCEPT !.state = "Landed"],
          controller |-> r.controller]

\* ---------------------------------------------------------------- order of accesses
\* What a call reads, in the order the code reads it: "get_weather" is a query
\* of the weather service, the other entries are reads of the named field.

\* check_weather: one get_weather call.
check_weather_accesses == <<"get_weather">>

\* has_plane: a scan of plane_ids.
has_plane_accesses == <<"plane_ids">>

\* set_max_capacity: a write only.
set_max_capacity_accesses == <<>>

\* add_plane: push, then airport_capacity += 1.
add_plane_accesses == <<"plane_ids", "airport_capacity">>

\* remove_plane: position(), then, unless unwrap() panicked, remove() and
\* airport_capacity -= 1.
remove_plane_accesses(c, id) ==
    IF position(c.plane_ids, id) = 0
    THEN <<"plane_ids">>
    ELSE <<"plane_ids", "plane_ids", "airport_capacity">>

\* allow_landing
allow_landing_accesses(c, plane, reading) ==
    IF check_weather(reading)[1] = "Stormy"
    THEN check_weather_accesses
    ELSE IF contains(c.plane_ids, plane.id)
    THEN check_weather_accesses \o <<"plane_ids">>
    ELSE IF c.airport_capacity + 1 > c.airport_max_capacity
    THEN check_weather_accesses
            \o <<"plane_ids", "airport_capacity", "airport_max_capacity">>
    ELSE check_weather_accesses
            \o <<"plane_ids", "airport_capacity", "airport_max_capacity">>
            \o add_plane_accesses

\* allow_takeoff with the plane's state matched before the weather.
allow_takeoff_accesses_state_first(c, plane, reading) ==
    IF plane.state = "Airborn"
    THEN <<"plane.state">>
    ELSE IF check_weather(reading)[1] = "Stormy"
    THEN <<"plane.state">> \o check_weather_accesses
    ELSE <<"plane.state">> \o check_weather_accesses
            \o remove_plane_accesses(c, plane.id)

\* allow_takeoff
allow_takeoff_accesses(c, plane, reading) ==
    IF check_weather(reading)[1] = "Stormy"
    THEN check_weather_accesses
    ELSE IF plane.state = "Airborn"
    THEN check_weather_accesses \o <<"plane.state">>
    ELSE check_weather_accesses \o <<"plane.state">>
            \o remove_plane_accesses(c, plane.id)

\* Plane::request_takeoff: the controller is called first; the plane's state
\* is then written, never read.
request_takeoff_accesses(plane, c, reading) == allow_takeoff_accesses(c, plane, reading)

\* Plane::request_landing: likewise.
request_landing_accesses(plane, c, reading) == allow_landing_accesses(c, plane, reading)

\* ---------------------------------------------------------------- state machine
NoReading == <<"Clear", 10>>

\* A panic ends the program: nothing runs after it.  Nor is the program
\* followed past an overflowed counter.
Crashed == last.response \in {"Panic", "Overflow"}

Init ==
    /\ \E initial_planes \in SeqsUpTo(MaxInitial) : controller = new(initial_planes)
    /\ \E st \in [Planes -> PlaneState] :
          planes = [p \in Planes |-> [id |-> PlaneId(p), state |-> st[p]]]
    /\ last = [op |-> "new", plane |-> 0, reading |-> NoReading,
               arg |-> 0, response |-> "None", accesses |-> <<>>]

RequestLanding(p, reading) ==
    /\ ~Crashed
    /\ LET r == request_landing(planes[p], controller, reading) IN
        /\ controller' = r.controller
        /\ planes' = [planes EXCEPT ![p] = r.plane]
        /\ last' = [op |-> "request_landing", plane |-> p, reading |-> reading,
                    arg |-> 0, response |-> r.response,
                    accesses |-> request_landing_accesses(planes[p], controller, reading)]

RequestTakeoff(p, reading) ==
    /\ ~Crashed
    /\ LET r == request_takeoff(planes[p], controller, reading) IN
        /\ controller' = r.controller
        /\ planes' = [planes EXCEPT ![p] = r.plane]
        /\ last' = [op |-> "request_takeoff", plane |-> p, reading |-> reading,
                    arg |-> 0, response |-> r.response,
                    accesses |-> request_takeoff_accesses(planes[p], controller, reading)]

HasPlane(p) ==
    /\ ~Crashed
    /\ UNCHANGED <<controller, planes>>
    /\ last' = [op |-> "has_plane", plane |-> p, reading |-> NoReading, arg |-> 0,
                response |-> IF has_plane(controller, planes[p]) THEN "true" ELSE "false",
                accesses |-> has_plane_accesses]

SetMaxCapacity(max) ==
    /\ ~Crashed
    /\ controller' = set_max_capacity(controller, max)
    /\ UNCHANGED planes
    /\ last' = [op |-> "set_max_capacity", plane |-> 0, reading |-> NoReading,
                arg |-> max, response |-> "None",
                accesses |-> set_max_capacity_accesses]

Next ==
    \/ \E p \in Planes, reading \in WeatherReadings : RequestLanding(p, reading)
    \/ \E p \in Planes, reading \in WeatherReadings : RequestTakeoff(p, reading)
    \/ \E p \in Planes : HasPlane(p)
    \/ \E max \in 0..MaxCapacityArg : SetMaxCapacity(max)

Spec == Init /\ [][Next]_vars

TypeOK ==
    /\ controller.airport_capacity \in Nat
    /\ controller.airport_max_capacity \in Nat
    /\ controller.plane_ids \in Seq(Ids)
    /\ \A p \in Planes : planes[p].id = PlaneId(p) /\ planes[p].state \in PlaneState
    /\ last.response \in ControllerResponse \cup {"None", "Panic", "Overflow", "true", "false"}

\* ---------------------------------------------------------------- vocabulary of the claims
\* The presence set: the distinct ids stored in plane_ids.
PresentSet(c) == {c.plane_ids[i] : i \in 1..Len(c.plane_ids)}

\* How many times id is stored in ids.
Occurrences(ids, id) == Cardinality({i \in 1..Len(ids) : ids[i] = id})

Stormy(reading) == reading[1] = "Stormy"

\* The step just taken was this call (last' describes the call that produced
\* the new state).
LandingStep == last'.op = "request_landing"
TakeoffStep == last'.op = "request_takeoff"
SetMaxStep  == last'.op = "set_max_capacity"

\* The requesting plane of the step, before and after it.
ReqBefore == planes[last'.plane]
ReqAfter  == planes'[last'.plane]

\* ---------------------------------------------------------------- C1
\* C1: in every reachable state airport_capacity equals the size of the
\* presence set, i.e. the number of distinct ids stored in plane_ids.
C1_OccupancyInvariant ==
    controller.airport_capacity = Cardinality(PresentSet(controller))

\* ---------------------------------------------------------------- C2
\* C2: request_landing decides in the order weather > duplicate id >
\* capacity > accept; on acceptance the id is added to the presence set and
\* airport_capacity grows by exactly one, otherwise the controller is as it was.
C2_LandingDecision ==
    LandingStep =>
        LET id == ReqBefore.id IN
        /\ last'.response =
              IF Stormy(last'.reading) THEN "RejectLanding"
              ELSE IF id \in PresentSet(controller) THEN "RejectLanding"
              ELSE IF controller.airport_capacity + 1 > controller.airport_max_capacity
                   THEN "Redirect"
              ELSE "AcceptLanding"
        /\ last'.response = "AcceptLanding" =>
              /\ PresentSet(controller') = PresentSet(controller) \cup {id}
              /\ Occurrences(controller'.plane_ids, id) = 1
              /\ controller'.airport_capacity = controller.airport_capacity + 1

C2_LandingOrder == [][C2_LandingDecision]_vars

\* A present id asked to land at a full airport in fair weather was rejected,
\* not redirected.
C2_Witness ==
    /\ last.op = "request_landing"
    /\ last.response = "RejectLanding"
    /\ ~Stormy(last.reading)
    /\ planes[last.plane].id \in PresentSet(controller)
    /\ controller.airport_capacity + 1 > controller.airport_max_capacity

\* ---------------------------------------------------------------- C3
\* C3 as stated: request_takeoff decides in the order weather > plane state >
\* remove, and in the last case always answers AllowTakeoff with the id gone
\* from the presence set and airport_capacity one less.
C3_TakeoffDecisionAsStated ==
    TakeoffStep =>
        LET id == ReqBefore.id IN
        /\ last'.response =
              IF Stormy(last'.reading) THEN "RejectTakeoff"
              ELSE IF ReqBefore.state = "Airborn" THEN "RejectTakeoff"
              ELSE "AllowTakeoff"
        /\ last'.response = "AllowTakeoff" =>
              /\ id \notin PresentSet(controller')
              /\ controller'.airport_capacity = controller.airport_capacity - 1

FirstOccurrenceRemoved(ids, ids2, id) ==
    \E i \in 1..Len(ids) :
        /\ ids[i] = id
        /\ \A j \in 1..(i - 1) : ids[j] # id
        /\ Len(ids2) = Len(ids) - 1
        /\ \A j \in 1..(i - 1) : ids2[j] = ids[j]
        /\ \A j \in i..Len(ids2) : ids2[j] = ids[j + 1]

\* C3 (amended): request_takeoff answers RejectTakeoff in a storm; else
\* RejectTakeoff if the plane is Airborn, whether or not its id is present;
\* else, if the id is not stored, the call panics with the controller and the
\* plane untouched; else the first stored occurrence of the id is removed,
\* airport_capacity is decremented by exactly one and the answer is AllowTakeoff.
C3_TakeoffDecision ==
    TakeoffStep =>
        LET id == ReqBefore.id IN
        /\ last'.response =
              IF Stormy(last'.reading) THEN "RejectTakeoff"
              ELSE IF ReqBefore.state = "Airborn" THEN "RejectTakeoff"
              ELSE IF id \notin PresentSet(controller) THEN "Panic"
              ELSE "AllowTakeoff"
        /\ last'.response = "AllowTakeoff" =>
              /\ FirstOccurrenceRemoved(controller.plane_ids, controller'.plane_ids, id)
              /\ controller'.airport_capacity = controller.airport_capacity - 1
              /\ controller'.airport_max_capacity = controller.airport_max_capacity
        /\ last'.response # "AllowTakeoff" =>
              /\ controller' = controller
              /\ planes' = planes

C4_StormStep ==
    (LandingStep \/ TakeoffStep) /\ Stormy(last'.reading) =>
        /\ last'.response = IF LandingStep THEN "RejectLanding" ELSE "RejectTakeoff"
        /\ controller' = controller
        /\ planes' = planes

C4_WeatherPrecedence == [][C4_StormStep]_vars

\* A Landed plane whose id is absent was refused takeoff in a storm: no
\* removal was attempted.
C4_Witness ==
    /\ last.op = "request_takeoff"
    /\ Stormy(last.reading)
    /\ last.response = "RejectTakeoff"
    /\ planes[last.plane].state = "Landed"
    /\ planes[last.plane].id \notin PresentSet(controller)

\* ---------------------------------------------------------------- C5
\* C5: right after a request_landing that answered AcceptLanding,
\* airport_capacity <= airport_max_capacity.
C5_CapacityBound ==
    (last.op = "request_landing" /\ last.response = "AcceptLanding") =>
        controller.airport_capacity <= controller.airport_max_capacity

\* A landing was accepted into the last free place of an airport whose
\* maximum had been overridden.
C5_Witness ==
    /\ last.op = "request_landing"
    /\ last.response = "AcceptLanding"
    /\ controller.airport_max_capacity # DefaultMaxCapacity
    /\ controller.airport_capacity = controller.airport_max_capacity

\* ---------------------------------------------------------------- C6
\* C6: once request_landing for an id has answered AcceptLanding, every
\* further request_landing with that id made before a successful takeoff of
\* that id answers RejectLanding, has_plane stays true, airport_capacity is
\* unchanged and the id is stored exactly once.  Stated as the three step
\* properties that carry it from the accepting step onwards:
\*   (a) the accepting step leaves the id stored exactly once;
\*   (b) an id stored exactly once stays stored exactly once over every step
\*       that is not a successful takeoff of that id;
\*   (c) a request_landing with an id stored exactly once answers
\*       RejectLanding and leaves the controller and the planes as they were.
C6_DuplicateLandingStep ==
    /\ (LandingStep /\ last'.response = "AcceptLanding") =>
          Occurrences(controller'.plane_ids, ReqBefore.id) = 1
    /\ \A id \in Ids :
          ( /\ Occurrences(controller.plane_ids, id) = 1
            /\ ~(TakeoffStep /\ last'.response = "AllowTakeoff" /\ ReqBefore.id = id) )
          => Occurrences(controller'.plane_ids, id) = 1
    /\ (LandingStep /\ Occurrences(controller.plane_ids, ReqBefore.id) = 1) =>
          /\ last'.response = "RejectLanding"
          /\ has_plane(controller', ReqAfter)
          /\ controller'.airport_capacity = controller.airport_capacity
          /\ controller'.plane_ids = controller.plane_ids
          /\ planes' = planes

C6_IdempotentRejection == [][C6_DuplicateLandingStep]_vars

\* In clear weather, with room left, a landing with an id stored once was
\* rejected and the id is still stored once.
C6_Witness ==
    /\ last.op = "request_landing"
    /\ last.response = "RejectLanding"
    /\ ~Stormy(last.reading)
    /\ Occurrences(controller.plane_ids, planes[last.plane].id) = 1
    /\ controller.airport_capacity + 1 <= controller.airport_max_capacity

\* ---------------------------------------------------------------- C7
\* C7: in non-stormy weather a request_landing by a plane whose id is absent
\* while airport_capacity >= airport_max_capacity answers Redirect; has_plane
\* for it stays false, airport_capacity and the plane's state are unchanged.
C7_FullAirportStep ==
    ( /\ LandingStep
      /\ ~Stormy(last'.reading)
      /\ ~has_plane(controller, ReqBefore)
      /\ controller.airport_capacity >= controller.airport_max_capacity )
    =>
    /\ last'.response = "Redirect"
    /\ ~has_plane(controller', ReqAfter)
    /\ controller'.airport_capacity = controller.airport_capacity
    /\ ReqAfter.state = ReqBefore.state

C7_CapacityBoundary == [][C7_FullAirportStep]_vars

\* An Airborn plane was redirected from an empty airport of capacity 0.
C7_Witness ==
    /\ last.op = "request_landing"
    /\ last.response = "Redirect"
    /\ controller.airport_max_capacity = 0
    /\ controller.airport_capacity = 0
    /\ planes[last.plane].state = "Airborn"

\* ---------------------------------------------------------------- C8
\* C8: for a Landed plane whose id is in the presence set and non-stormy
\* weather, request_takeoff answers AllowTakeoff, the plane becomes Airborn,
\* has_plane for it becomes false, airport_capacity decreases by exactly one
\* and every other id's presence is unchanged.
C8_PresentTakeoffStep ==
    ( /\ TakeoffStep
      /\ ~Stormy(last'.reading)
      /\ ReqBefore.state = "Landed"
      /\ ReqBefore.id \in PresentSet(controller) )
    =>
    /\ last'.response = "AllowTakeoff"
    /\ ReqAfter.state = "Airborn"
    /\ ~has_plane(controller', ReqAfter)
    /\ controller'.airport_capacity = controller.airport_capacity - 1
    /\ \A id \in Ids \ {ReqBefore.id} :
          (id \in PresentSet(controller')) = (id \in PresentSet(controller))

C8_TakeoffOfPresent == [][C8_PresentTakeoffStep]_vars

\* ---------------------------------------------------------------- C9
\* C9: a plane's state goes from Landed to Airborn only in a request_takeoff
\* of that plane that answers AllowTakeoff, and from Airborn to Landed only
\* in a request_landing of that plane that answers AcceptLanding; a request
\* answered RejectTakeoff, RejectLanding or Redirect leaves the requester's
\* state as it was, and no step changes a plane other than the requester.
C9_GateStep ==
    /\ \A p \in Planes :
          planes'[p] # planes[p] =>
              /\ p = last'.plane
              /\ planes'[p].id = planes[p].id
              /\ \/ /\ planes[p].state = "Landed"
                    /\ planes'[p].state = "Airborn"
                    /\ TakeoffStep
                    /\ last'.response = "AllowTakeoff"
                 \/ /\ planes[p].state = "Airborn"
                    /\ planes'[p].state = "Landed"
                    /\ LandingStep
                    /\ last'.response = "AcceptLanding"
    /\ last'.response \in {"RejectTakeoff", "RejectLanding", "Redirect"} =>
          planes' = planes

C9_AdmissionGate == [][C9_GateStep]_vars

\* A plane has just become Airborn through an allowed takeoff while another
\* plane with the same id is still Landed.
C9_Witness ==
    /\ last.op = "request_takeoff"
    /\ last.response = "AllowTakeoff"
    /\ planes[last.plane].state = "Airborn"
    /\ \E q \in Planes \ {last.plane} :
          planes[q].id = planes[last.plane].id /\ planes[q].state = "Landed"

\* ---------------------------------------------------------------- C10
\* C10: set_max_capacity(v) changes airport_max_capacity to v and nothing
\* else (no eviction); whatever the maximum, a Landed plane whose id is
\* stored is still allowed to take off in non-stormy weather; and a
\* non-stormy landing of an absent id is redirected exactly when
\* airport_capacity + 1 > airport_max_capacity.
C10_CapacityOverrideStep ==
    /\ SetMaxStep =>
          /\ controller' = [controller EXCEPT !.airport_max_capacity = last'.arg]
          /\ planes' = planes
    /\ ( /\ TakeoffStep
         /\ ~Stormy(last'.reading)
         /\ ReqBefore.state = "Landed"
         /\ has_plane(controller, ReqBefore) )
       => last'.response = "AllowTakeoff"
    /\ ( /\ LandingStep
         /\ ~Stormy(last'.reading)
         /\ ~has_plane(controller, ReqBefore) )
       => ( (last'.response = "Redirect")
              = (controller.airport_capacity + 1 > controller.airport_max_capacity) )

C10_SetMaxCapacityFrame == [][C10_CapacityOverrideStep]_vars

\* The maximum was just lowered below the occupancy and nobody was evicted.
C10_Witness ==
    /\ last.op = "set_max_capacity"
    /\ controller.airport_max_capacity = last.arg
    /\ controller.airport_capacity > controller.airport_max_capacity
    /\ Len(controller.plane_ids) = controller.airport_capacity

\* ---------------------------------------------------------------- C11
HasPlaneStep == last'.op = "has_plane"

\* C11: a newly constructed controller has airport_max_capacity = 100
\* whatever its initial vector; no landing, takeoff or has_plane changes it;
\* set_max_capacity(v) makes it v (so it is v until the next set_max_capacity).
C11_MaxCapacityStep ==
    /\ SetMaxStep => controller'.airport_max_capacity = last'.arg
    /\ ~SetMaxStep => controller'.airport_max_capacity = controller.airport_max_capacity

C11_DefaultCapacity ==
    /\ controller.airport_max_capacity = DefaultMaxCapacity
    /\ [][C11_MaxCapacityStep]_vars

\* A landing was accepted into an airport built with planes in it, and the
\* maximum is still the default.
C11_Witness ==
    /\ last.op = "request_landing"
    /\ last.response = "AcceptLanding"
    /\ Len(controller.plane_ids) > 1
    /\ controller.airport_max_capacity = DefaultMaxCapacity

\* ---------------------------------------------------------------- C12
\* C12: in non-stormy weather request_takeoff by a Landed plane whose id is
\* not stored returns no response: it panics in the removal, with
\* airport_capacity not decremented, plane_ids untouched and the plane still
\* Landed.
C12_AbsentTakeoffStep ==
    ( /\ TakeoffStep
      /\ ~Stormy(last'.reading)
      /\ ReqBefore.state = "Landed"
      /\ ~has_plane(controller, ReqBefore) )
    =>
    /\ last'.response = "Panic"
    /\ last'.response \notin ControllerResponse
    /\ controller' = controller
    /\ planes' = planes

C12_AbsentTakeoffPanics == [][C12_AbsentTakeoffStep]_vars

\* The program has panicked in a takeoff from an airport that holds other planes.
C12_Witness ==
    /\ last.op = "request_takeoff"
    /\ last.response = "Panic"
    /\ planes[last.plane].state = "Landed"
    /\ controller.airport_capacity > 0

\* ---------------------------------------------------------------- C13
\* C13: every request_landing, has_plane and set_max_capacity call returns,
\* and so does every request_takeoff except that of a Landed plane whose id
\* is not stored in non-stormy weather; airport_capacity is never decremented
\* at 0 and never below 0.  (A panicking call leaves controller and planes as
\* they were, so the state after it shows the state it was made in.)
C13_Totality ==
    /\ last.response # "Overflow"
    /\ controller.airport_capacity >= 0
    /\ last.op = "request_landing" =>
          last.response \in {"AcceptLanding", "RejectLanding", "Redirect"}
    /\ last.op = "has_plane" => last.response \in {"true", "false"}
    /\ last.op = "set_max_capacity" => last.response = "None"
    /\ last.op = "request_takeoff" =>
          /\ last.response \in {"AllowTakeoff", "RejectTakeoff", "Panic"}
          /\ last.response = "Panic" =>
                /\ ~Stormy(last.reading)
                /\ planes[last.plane].state = "Landed"
                /\ ~has_plane(controller, planes[last.plane])

\* A takeoff brought airport_capacity down to exactly 0.
C13_Witness ==
    /\ last.op = "request_takeoff"
    /\ last.response = "AllowTakeoff"
    /\ controller.airport_capacity = 0
    /\ controller.plane_ids = <<>>

\* ---------------------------------------------------------------- C14
\* C14: plane_ids and airport_capacity change only in a step that answers
\* AcceptLanding or AllowTakeoff; a step that answers RejectLanding, Redirect
\* or RejectTakeoff, and every has_plane, leaves plane_ids, airport_capacity
\* and airport_max_capacity as they were; has_plane answers true exactly when
\* the plane's id is in the presence set.
C14_SideEffectStep ==
    /\ ( \/ controller'.plane_ids # controller.plane_ids
         \/ controller'.airport_capacity # controller.airport_capacity )
       => last'.response \in {"AcceptLanding", "AllowTakeoff"}
    /\ (last'.response \in {"RejectLanding", "Redirect", "RejectTakeoff"} \/ HasPlaneStep)
       => controller' = controller
    /\ HasPlaneStep =>
          (last'.response = "true") = (ReqBefore.id \in PresentSet(controller))
    /\ HasPlaneStep => last'.response \in {"true", "false"}

C14_SideEffectsConfined == [][C14_SideEffectStep]_vars

\* At a full airport a has_plane query found the plane's id.
C14_Witness ==
    /\ last.op = "has_plane"
    /\ last.response = "true"
    /\ planes[last.plane].id \in PresentSet(controller)
    /\ controller.airport_capacity >= controller.airport_max_capacity

\* ---------------------------------------------------------------- C15
\* How many entries of accesses are e.
CountOf(accesses, e) == Cardinality({i \in 1..Len(accesses) : accesses[i] = e})

\* C15: a landing or takeoff request queries the weather service exactly
\* once, and before any read of plane_ids, airport_capacity,
\* airport_max_capacity or the plane's state; has_plane and set_max_capacity
\* never query it.
C15_WeatherQueriedOnceFirst ==
    /\ last.op \in {"request_landing", "request_takeoff"} =>
          /\ CountOf(last.accesses, "get_weather") = 1
          /\ last.accesses[1] = "get_weather"
    /\ last.op \in {"has_plane", "set_max_capacity"} =>
          CountOf(last.accesses, "get_weather") = 0

\* An allowed takeoff queried the weather and then read the plane's state and
\* the stored ids.
C15_Witness ==
    /\ last.op = "request_takeoff"
    /\ last.response = "AllowTakeoff"
    /\ Len(last.accesses) > 2
    /\ last.accesses[2] = "plane.state"

\* ---------------------------------------------------------------- C16
\* The i8 magnitudes compared: those of the tests.
Magnitudes == {-10, 10}

\* Every category with every magnitude.
AllReadings == Weather \X Magnitudes

\* The reading that stands for all readings of the same storminess.
Representative(reading) ==
    IF Stormy(reading) THEN <<"Stormy", 10>> ELSE <<"Clear", 10>>

\* C16: only whether the category is Stormy influences a decision.  In
\* every reachable state, a request made under any reading returns the same
\* response and leaves the same controller and plane as the same request made
\* under any other reading of the same storminess, whatever the magnitudes and
\* the non-Stormy categories; two runs of one request sequence from one
\* initial state that differ only so therefore agree step by step.
C16_OnlyStorminessMatters ==
    \A p \in Planes : \A reading \in AllReadings :
        /\ request_landing(planes[p], controller, reading)
              = request_landing(planes[p], controller, Representative(reading))
        /\ request_takeoff(planes[p], controller, reading)
              = request_takeoff(planes[p], controller, Representative(reading))

\* A landing was accepted while it hailed.
C16_Witness ==
    /\ last.op = "request_landing"
    /\ last.reading[1] = "Hailing"
    /\ last.response = "AcceptLanding"

\* ---------------------------------------------------------------- C17
NoDuplicates(ids) ==
    \A i, j \in 1..Len(ids) : i # j => ids[i] # ids[j]

\* One Plane value per id: the first of the pool with each id.
OnePerId == {p \in Planes : \A q \in Planes : q < p => PlaneId(q) # PlaneId(p)}

\* new() is handed a vector without a repeated id.
InitNoDup == Init /\ NoDuplicates(controller.plane_ids)

\* The callers keep one Plane value per id, built Landed exactly when its id
\* is in the initial vector; the other values of the pool are never used.
InitConsistent ==
    /\ InitNoDup
    /\ \A p \in OnePerId :
          (planes[p].state = "Landed") = (planes[p].id \in PresentSet(controller))
    /\ \A p \in Planes \ OnePerId : planes[p].state = "Airborn"

NextConsistent ==
    \/ \E p \in OnePerId, reading \in WeatherReadings : RequestLanding(p, reading)
    \/ \E p \in OnePerId, reading \in WeatherReadings : RequestTakeoff(p, reading)
    \/ \E p \in OnePerId : HasPlane(p)
    \/ \E max \in 0..MaxCapacityArg : SetMaxCapacity(max)

SpecConsistent == InitConsistent /\ [][NextConsistent]_vars

\* C17: with one Plane value per id, an initial vector without a repeated id
\* and every plane initially Landed exactly when its id is in it, every plane
\* is Landed exactly when its id is in the presence set, in every reachable
\* state; so the panic of remove_plane is never reached.
C17_Consistency ==
    /\ \A p \in OnePerId :
          (planes[p].state = "Landed") = has_plane(controller, planes[p])
    /\ last.response # "Panic"

\* A plane that was in the initial vector has taken off and another has been
\* redirected since.
C17_Witness ==
    /\ last.op = "request_landing"
    /\ last.response = "Redirect"
    /\ planes[last.plane].state = "Airborn"
    /\ \E q \in OnePerId : planes[q].state = "Landed"

\* ---------------------------------------------------------------- C18
SpecNoDup == InitNoDup /\ [][Next]_vars

\* C18: when the initial vector has no id twice, no reachable plane_ids has
\* an id twice, and right after an allowed takeoff has_plane is false for the
\* plane that took off.
C18_NoDuplicateEntries ==
    /\ NoDuplicates(controller.plane_ids)
    /\ (last.op = "request_takeoff" /\ last.response = "AllowTakeoff") =>
          ~has_plane(controller, planes[last.plane])

\* A plane took off from an airport that landed it earlier, another plane
\* still being there.
C18_Witness ==
    /\ last.op = "request_takeoff"
    /\ last.response = "AllowTakeoff"
    /\ ~has_plane(controller, planes[last.plane])
    /\ Len(controller.plane_ids) > 0

\* ---------------------------------------------------------------- C19
\* C19: in every reachable state, for a plane whose id is absent and with
\* airport_capacity < airport_max_capacity, a request_landing followed at
\* once by a request_takeoff of the same plane, both in non-stormy weather,
\* answers AcceptLanding then AllowTakeoff, gives back the controller exactly
\* (plane_ids in the same order, airport_capacity, airport_max_capacity) and
\* leaves the plane Airborn.
C19_RoundTrip ==
    \A p \in Planes : \A r1, r2 \in WeatherReadings :
        ( /\ ~Stormy(r1)
          /\ ~Stormy(r2)
          /\ ~has_plane(controller, planes[p])
          /\ controller.airport_capacity < controller.airport_max_capacity )
        =>
        LET a == request_landing(planes[p], controller, r1)
            b == request_takeoff(a.plane, a.controller, r2)
        IN /\ a.response = "AcceptLanding"
           /\ a.controller.plane_ids = Append(controller.plane_ids, planes[p].id)
           /\ b.response = "AllowTakeoff"
           /\ b.controller = controller
           /\ b.plane.state = "Airborn"
           /\ b.plane.id = planes[p].id

\* A plane that landed here earlier has taken off again and could land once
\* more: other ids are stored and there is room.
C19_Witness ==
    /\ last.op = "request_takeoff"
    /\ last.response = "AllowTakeoff"
    /\ ~has_plane(controller, planes[last.plane])
    /\ Len(controller.plane_ids) > 0
    /\ controller.airport_capacity < controller.airport_max_capacity

====
